---- MODULE Spec2Model ----
(***************************************************************************)
(* Model of the specimen counting pipeline                                *)
(* (run_count_specimens_with_counts.py) and of the web handler that       *)
(* launches it (app.py, run_yolo).                                         *)
(*                                                                         *)
(* File names are sequences of one-character strings, so that glob        *)
(* suffix matching, str.upper() and str.startswith('.') are computed on   *)
(* the characters.  Confidences are integers in thousandths.  The clock   *)
(* counts whole seconds, all that strftime("%Y%m%d_%H%M%S") keeps.  The   *)
(* variable now holds the time of the latest clock reading.               *)
(*                                                                         *)
(* Environment assumptions: the upload directory and the model files are  *)
(* not modified while pipeline runs are in progress; a file that          *)
(* cv2.imread cannot decode is undecodable for every run; the detection   *)
(* model is a fixed function of (model file, image); cv2.imwrite writes   *)
(* its file; a report write that fails, fails at open() and leaves the    *)
(* file untouched; the file system is case-sensitive; the directory of    *)
(* app.py is the working directory of the pipeline process.  YOLO(),      *)
(* model.predict(), open() and shutil.copy2() may raise at any call.      *)
(***************************************************************************)
EXTENDS Integers, Sequences, FiniteSets, TLC

\* ------------------------------------------------------------------ bounds
\* Largest number of entries of the upload directory.
MaxFiles == 2

\* Last second of the wall clock (the clock runs 0..MaxClock).
MaxClock == 1

\* The pipeline processes that may run, one after the other or concurrently,
\* numbered in the order of their start.
Runs == {1, 2}

\* ------------------------------------------------------- the world of files
NameA    == <<"a", ".", "j", "p", "g">>
NameAUp  == <<"a", ".", "J", "P", "G">>
NameMix  == <<"b", ".", "J", "p", "g">>
NameDot  == <<".", "d", ".", "j", "p", "g">>
NameTiff == <<"f", ".", "t", "i", "f", "f">>

\* The files that can be present in the upload directory.
AllNames == {NameA, NameAUp, NameMix, NameDot, NameTiff}

\* Files whose content is not a decodable image: cv2.imread returns None.
Undecodable == {NameAUp}

\* (width, height) of a decodable image, image.shape[:2] reversed.
ImageSize(name) ==
    IF name = NameA THEN <<640, 480>>
    ELSE IF name = NameTiff THEN <<1600, 2000>>
    ELSE <<320, 240>>

\* cv2.imread(str(image_path)): ok is FALSE when it returns None, else the
\* decoded image with its shape.
imread(name) ==
    IF name \in Undecodable
    THEN [ok |-> FALSE, size |-> <<0, 0>>]
    ELSE [ok |-> TRUE, size |-> ImageSize(name)]

\* The model files: best.pt in the working directory, one model of the zoo.
BestPt == "best.pt"
ZooPt  == "model_zoo/zoo.pt"
ModelPaths == {BestPt, ZooPt}

\* main: model_path = "best.pt", relative to the working directory, which is
\* the directory of app.py: the file of its fallback model.
model_path == BestPt

\* model.predict(...)[0].boxes.conf of a fixed (mocked) detection model: the
\* confidences of the boxes found in an image, in thousandths.
Detections(detector, name) ==
    IF detector = BestPt
    THEN IF name = NameA THEN <<900, 800, 700>> ELSE << >>
    ELSE IF name = NameA THEN <<600>>
         ELSE IF name = NameTiff THEN <<500, 300>>
         ELSE << >>

\* --------------------------------------------------------------- sequences
RECURSIVE SumSeq(_)
SumSeq(s) == IF s = << >> THEN 0 ELSE Head(s) + SumSeq(Tail(s))

RECURSIVE Concat(_)
Concat(ss) == IF ss = << >> THEN << >> ELSE Head(ss) \o Concat(Tail(ss))

Range(s) == {s[i] : i \in DOMAIN s}

\* All orders in which the elements of a finite set can be listed.
Orders(S) ==
    {s \in [1..Cardinality(S) -> S] : \A i, j \in DOMAIN s : s[i] = s[j] => i = j}

\* ------------------------------------------------------------------- state
VARIABLES
    modelFiles,      \* model files present on disk
    dirExists,       \* whether the upload directory exists
    inputDir,        \* names of the entries of the upload directory
    now,             \* wall clock at its latest reading, in seconds
    fs,              \* output root: bundle path -> content of the bundle
    pc,              \* per run: position of the pipeline process
    argModel,        \* per run: the --model-path argument it was started with
    response,        \* per run: JSON status returned by run_yolo
    model,           \* per run: the model file loaded by YOLO(model_path)
    output_dir,      \* per run: path of the bundle it created, NoDir before
    image_files,     \* per run: discovered image paths, in discovery order
    idx,             \* per run: number of images the loop has dealt with
    results_data,    \* per run: accumulated per-image outcomes
    total_specimens, \* per run: running total of the counts
    printed,         \* per run: what the run printed (reason / final summary)
    predecessors     \* per run: the runs that had ended when it was started

vars == <<modelFiles, dirExists, inputDir, now, fs, pc, argModel, response,
          model, output_dir, image_files, idx, results_data, total_specimens,
          printed, predecessors>>

world == <<modelFiles, dirExists, inputDir>>

\* The variables of a pipeline process.
locals == <<model, image_files, idx, results_data, total_specimens>>

NoModel == "NoModel"
NoDir   == << >>

\* ------------------------------------------------------- strings and paths
\* str.upper() on one character (the letters of the extensions).
UpperChar(c) ==
    CASE c = "j" -> "J" [] c = "p" -> "P" [] c = "g" -> "G" [] c = "e" -> "E"
      [] c = "n" -> "N" [] c = "b" -> "B" [] c = "m" -> "M" [] c = "t" -> "T"
      [] c = "i" -> "I" [] c = "f" -> "F" [] OTHER -> c

\* ext.upper()
upper(s) == [i \in DOMAIN s |-> UpperChar(s[i])]

\* f.name.startswith('.')
startswith_dot(name) == Len(name) > 0 /\ name[1] = "."

\* fnmatch of the pattern "*" + suffix: the name ends with the suffix,
\* compared character by character (case-sensitive).
EndsWith(name, suffix) ==
    /\ Len(name) >= Len(suffix)
    /\ SubSeq(name, Len(name) - Len(suffix) + 1, Len(name)) = suffix

\* Path(test_images_dir).glob("*" + suffix): the matching entries, in the
\* order in which the directory lists them.
glob(listing, suffix) == SelectSeq(listing, LAMBDA n : EndsWith(n, suffix))

\* image_extensions
image_extensions ==
    { <<".", "j", "p", "g">>, <<".", "j", "p", "e", "g">>, <<".", "p", "n", "g">>,
      <<".", "b", "m", "p">>, <<".", "t", "i", "f", "f">>, <<".", "t", "i", "f">> }

\* The orders in which a Python process can iterate over the set
\* image_extensions (string hashing is randomised per process).
ExtOrders == Orders(image_extensions)

\* The extensions whose globs are not empty.  An extension that matches no
\* entry adds nothing to image_files, so the discovered sequence depends
\* only on the iteration order of these (ExtOrdersSuffice states it).
MatchingExtensions(dir) ==
    {e \in image_extensions :
        \E n \in dir : EndsWith(n, e) \/ EndsWith(n, upper(e))}

\* The loop over image_extensions: for each extension, in iteration order,
\* the glob of the extension and then the glob of its upper case.
GlobAll(listing, order) ==
    Concat([i \in DOMAIN order |->
               glob(listing, order[i]) \o glob(listing, upper(order[i]))])

\* The discovered image files: the globs with hidden files filtered out.
DiscoverFiles(listing, order) ==
    SelectSeq(GlobAll(listing, order), LAMBDA n : ~startswith_dot(n))

\* "counted_" + image_path.name
CountedName(name) == <<"c", "o", "u", "n", "t", "e", "d", "_">> \o name

\* datetime.now().strftime("%Y%m%d_%H%M%S") at second t of the clock: the
\* format keeps the whole seconds, which is all the model's clock counts.
strftime(t) == <<"YmdHMS", t>>

\* Path(base_output_dir) / f"specimen_counts_{timestamp}"
BundlePath(timestamp) == <<"specimen_counts_", timestamp>>

\* ------------------------------------------------------------- arithmetic
\* Round num/den to the nearest integer, ties to the even one (the rounding
\* of Python's float formatting; the ties that occur here, quarters, are
\* exact binary fractions).
RoundHalfEven(num, den) ==
    LET q == num \div den
        r == num % den
    IN  IF 2 * r < den THEN q
        ELSE IF 2 * r > den THEN q + 1
        ELSE IF q % 2 = 0 THEN q ELSE q + 1

\* f"{total / n:.1f}", in tenths.
FormatAvg(total, n) == RoundHalfEven(10 * total, n)

\* np.mean(confidences), in thousandths.
Mean(confidences) == SumSeq(confidences) \div Len(confidences)

\* banner_height = max(80, int(height * 0.06)); for the heights of ImageSize
\* the float product truncates to the integer quotient.
BannerHeight(height) ==
    IF (height * 6) \div 100 > 80 THEN (height * 6) \div 100 ELSE 80

\* font_scale = max(1.5, banner_height / 50), in fiftieths.
font_scale(banner_height) == IF banner_height > 75 THEN banner_height ELSE 75

\* thickness = max(2, int(banner_height / 20))
thickness(banner_height) ==
    IF banner_height \div 20 > 2 THEN banner_height \div 20 ELSE 2

\* The height cv2.getTextSize returns for FONT_HERSHEY_SIMPLEX, whose cap and
\* base lines add up to 21: cvRound(21 * fontScale + (thickness + 1) / 2),
\* the scale in fiftieths, the division an integer one, and cvRound rounding
\* ties (exact ones: the scale is then a multiple of one half) to even.
getTextSize(scale, thick) ==
    RoundHalfEven(21 * scale + 50 * ((thick + 1) \div 2), 50)

\* draw_count_banner: what the banner of the returned image shows.
\* confidence_avg is << >> for None; conf_text is << >> when the
\* "Avg Confidence" line is not drawn.  int(text_height * 1.2) is the
\* truncated quotient for every text height up to 10000.
draw_count_banner(size, count, confidence_avg) ==
    LET banner_height == BannerHeight(size[2])
        text_height == getTextSize(font_scale(banner_height),
                                   thickness(banner_height))
        text_y == (banner_height + text_height) \div 2
        conf_y == text_y + (text_height * 12) \div 10
    IN  [size |-> size, banner_height |-> banner_height,
         count_text |-> count, confidence_avg |-> confidence_avg,
         text_y |-> text_y, conf_y |-> conf_y,
         conf_text |-> IF confidence_avg # << >> /\ conf_y < banner_height - 10
                       THEN confidence_avg ELSE << >>]

\* -------------------------------------------------------------- reporting
RECURSIVE SumCountsButLast(_)
\* SumCounts with the last outcome left out.
SumCountsButLast(rd) ==
    IF Len(rd) <= 1 THEN 0 ELSE Head(rd).count + SumCountsButLast(Tail(rd))

RECURSIVE SumCounts(_)
\* sum(r['count'] for r in results_data)
SumCounts(rd) == IF rd = << >> THEN 0 ELSE Head(rd).count + SumCounts(Tail(rd))

\* TextSummary with the average line always written, 0.0 for no outcome.
TextSummaryGuarded(rd) ==
    [images |-> Len(rd),
     total  |-> SumCounts(rd),
     avg    |-> IF rd # << >> THEN <<FormatAvg(SumCounts(rd), Len(rd))>> ELSE <<0>>,
     blocks |-> [i \in DOMAIN rd |->
                   [filename |-> rd[i].filename, count |-> rd[i].count,
                    avg_confidence |-> rd[i].avg_confidence,
                    image_size |-> rd[i].image_size]]]

\* The content of detection_summary.txt written by save_detection_summary.
\* avg is << >> when the average line is not written.
TextSummary(rd) ==
    [images |-> Len(rd),
     total  |-> SumCounts(rd),
     avg    |-> IF rd # << >> THEN <<FormatAvg(SumCounts(rd), Len(rd))>> ELSE << >>,
     blocks |-> [i \in DOMAIN rd |->
                   [filename |-> rd[i].filename, count |-> rd[i].count,
                    avg_confidence |-> rd[i].avg_confidence,
                    image_size |-> rd[i].image_size]]]

\* CsvRows with the rows of the images without specimens left out.
CsvRowsNonZero(rd) ==
    LET rows == [i \in DOMAIN rd |->
                    <<rd[i].filename, rd[i].count, rd[i].avg_confidence,
                      rd[i].image_size[1], rd[i].image_size[2]>>]
    IN  SelectSeq(rows, LAMBDA row : row[2] > 0)

\* The data rows of detection_results.csv written by save_detection_summary.
CsvRows(rd) ==
    [i \in DOMAIN rd |->
        <<rd[i].filename, rd[i].count, rd[i].avg_confidence,
          rd[i].image_size[1], rd[i].image_size[2]>>]

TxtFile == "detection_summary.txt"
CsvFile == "detection_results.csv"

\* ------------------------------------------------------------- file system
EmptyMap == [x \in {} |-> 0]

\* m with key k set to v.
Put(m, k, v) == [x \in DOMAIN m \cup {k} |-> IF x = k THEN v ELSE m[x]]

EmptyBundle ==
    [dirs |-> {}, annotated |-> EmptyMap, summary |-> EmptyMap, originals |-> {}]

\* create_output_structure(base_output_dir) at second t: the output root
\* after mkdir(parents=True, exist_ok=True) of the three subdirectories of
\* the bundle; an existing bundle keeps its content.
create_output_structure(files, t) ==
    LET output_path == BundlePath(strftime(t))
        old == IF output_path \in DOMAIN files THEN files[output_path]
               ELSE EmptyBundle
    IN  Put(files, output_path,
            [old EXCEPT !.dirs = @ \cup {"annotated_images", "detection_data",
                                         "summary"}])

\* -------------------------------------------------------------------- Init
Init ==
    /\ modelFiles \in SUBSET ModelPaths
    /\ dirExists \in BOOLEAN
    /\ inputDir \in {d \in SUBSET AllNames : Cardinality(d) <= MaxFiles}
    /\ (~dirExists => inputDir = {})
    /\ now = 0
    /\ fs = EmptyMap
    /\ pc = [r \in Runs |-> "idle"]
    /\ argModel = [r \in Runs |-> NoModel]
    /\ response = [r \in Runs |-> "none"]
    /\ model = [r \in Runs |-> NoModel]
    /\ output_dir = [r \in Runs |-> NoDir]
    /\ image_files = [r \in Runs |-> << >>]
    /\ idx = [r \in Runs |-> 0]
    /\ results_data = [r \in Runs |-> << >>]
    /\ total_specimens = [r \in Runs |-> 0]
    /\ printed = [r \in Runs |-> [reason |-> "none", summary |-> << >>]]
    /\ predecessors = [r \in Runs |-> {}]

\* ----------------------------------------------------------------- actions
\* get_available_models(): the zoo models sorted, best.pt inserted first.
get_available_models ==
    (IF BestPt \in modelFiles THEN <<BestPt>> ELSE << >>)
        \o (IF ZooPt \in modelFiles THEN <<ZooPt>> ELSE << >>)

\* The model path run_yolo passes on, from the session's selected_model
\* ("" when the session has none).
SelectModel(selected) ==
    LET available == get_available_models
        m1 == IF selected = "" /\ available # << >> THEN available[1] ELSE selected
    IN  IF m1 # "" /\ m1 \notin Range(available)
        THEN IF available # << >> THEN available[1] ELSE ""
        ELSE m1

\* Exit1 with the exit status left at 0: the message is printed and the
\* process ends as a success.
ExitZero(r, reason) ==
    /\ pc' = [pc EXCEPT ![r] = "done"]
    /\ response' = [response EXCEPT ![r] = "success"]
    /\ printed' = [printed EXCEPT ![r].reason = reason]
    /\ model' = [model EXCEPT ![r] = NoModel]
    /\ image_files' = [image_files EXCEPT ![r] = << >>]
    /\ idx' = [idx EXCEPT ![r] = 0]
    /\ results_data' = [results_data EXCEPT ![r] = << >>]
    /\ total_specimens' = [total_specimens EXCEPT ![r] = 0]

\* The message printed before sys.exit(1) (for the except clause of main,
\* "Processing failed: " and the exception): the process ends with a failure
\* and run_yolo answers 'error'.  The variables of the process end with it.
Exit1(r, reason) ==
    /\ pc' = [pc EXCEPT ![r] = "failed"]
    /\ response' = [response EXCEPT ![r] = "error"]
    /\ printed' = [printed EXCEPT ![r].reason = reason]
    /\ model' = [model EXCEPT ![r] = NoModel]
    /\ image_files' = [image_files EXCEPT ![r] = << >>]
    /\ idx' = [idx EXCEPT ![r] = 0]
    /\ results_data' = [results_data EXCEPT ![r] = << >>]
    /\ total_specimens' = [total_specimens EXCEPT ![r] = 0]

\* GET /run_yolo: answers 'error' when no model is available, else starts
\* the pipeline process with --model-path.  The runs are numbered in the
\* order in which they are started.
run_yolo(r) ==
    /\ pc[r] = "idle"
    /\ \A q \in Runs : q < r => pc[q] # "idle"
    /\ \E selected \in ModelPaths \cup {""} :
          LET selected_path == SelectModel(selected)
          IN  IF selected_path = ""
              THEN /\ response' = [response EXCEPT ![r] = "error"]
                   /\ UNCHANGED <<pc, argModel, predecessors>>
              ELSE /\ pc' = [pc EXCEPT ![r] = "start"]
                   /\ argModel' = [argModel EXCEPT ![r] = selected_path]
                   /\ predecessors' = [predecessors EXCEPT ![r] =
                          {q \in Runs : pc[q] \in {"done", "failed"}}]
                   /\ UNCHANGED response
    /\ UNCHANGED <<world, now, fs, output_dir, printed, locals>>

\* main up to the creation of the output structure: the two existence
\* checks (the command line is not read), then create_output_structure,
\* whose datetime.now() reads the clock, which has not gone back since it
\* was last read.
StartMain(r) ==
    /\ pc[r] = "start"
    /\ IF model_path \notin modelFiles
       THEN /\ Exit1(r, "Model not found")
            /\ UNCHANGED <<now, fs, output_dir>>
       ELSE IF ~dirExists
       THEN /\ Exit1(r, "Test images directory not found")
            /\ UNCHANGED <<now, fs, output_dir>>
       ELSE /\ \E t \in now..MaxClock :
                 /\ now' = t
                 /\ fs' = create_output_structure(fs, t)
                 /\ output_dir' = [output_dir EXCEPT ![r] = BundlePath(strftime(t))]
            /\ pc' = [pc EXCEPT ![r] = "load"]
            /\ UNCHANGED <<response, printed, locals>>
    /\ UNCHANGED <<world, argModel, predecessors>>

\* model = YOLO(model_path) in its try block; an exception exits with 1.
LoadModel(r) ==
    /\ pc[r] = "load"
    /\ \E raised \in BOOLEAN :
          IF raised
          THEN Exit1(r, "Error loading model")
          ELSE /\ model' = [model EXCEPT ![r] = model_path]
               /\ pc' = [pc EXCEPT ![r] = "discover"]
               /\ UNCHANGED <<response, printed, image_files, idx,
                              results_data, total_specimens>>
    /\ UNCHANGED <<world, now, fs, argModel, output_dir, predecessors>>

\* The discovery of the image files and the exit when there are none.
Discover(r) ==
    /\ pc[r] = "discover"
    /\ \E listing \in Orders(inputDir),
          order \in Orders(MatchingExtensions(inputDir)) :
          LET files == DiscoverFiles(listing, order)
          IN  IF files = << >>
              THEN Exit1(r, "No images found")
              ELSE /\ image_files' = [image_files EXCEPT ![r] = files]
                   /\ pc' = [pc EXCEPT ![r] = "process"]
                   /\ UNCHANGED <<response, printed, model, idx, results_data,
                                  total_specimens>>
    /\ UNCHANGED <<world, now, fs, argModel, output_dir, predecessors>>

\* The outcome appended to results_data for an image that was loaded.
Outcome(name, image, confidences) ==
    [filename |-> name,
     count |-> Len(confidences),
     avg_confidence |-> IF Len(confidences) > 0 THEN Mean(confidences) ELSE 0,
     image_size |-> image.size]

\* One iteration of the loop over image_files: predict, imread (an image
\* that does not load is skipped), count, banner, imwrite, append.
ProcessImage(r) ==
    /\ pc[r] = "process"
    /\ idx[r] < Len(image_files[r])
    /\ LET name == image_files[r][idx[r] + 1]
           image == imread(name)
           out == Outcome(name, image, Detections(model[r], name))
           final_image ==
               draw_count_banner(image.size, out.count,
                   IF out.count > 0 THEN <<out.avg_confidence>> ELSE << >>)
       IN  \E raised \in BOOLEAN :
              IF raised
              THEN /\ Exit1(r, "Processing failed: predict")
                   /\ UNCHANGED fs
              ELSE /\ idx' = [idx EXCEPT ![r] = @ + 1]
                   /\ UNCHANGED <<pc, response, printed, model, image_files>>
                   /\ IF ~image.ok
                      THEN UNCHANGED <<fs, results_data, total_specimens>>
                      ELSE /\ fs' = [fs EXCEPT ![output_dir[r]].annotated =
                                        Put(@, CountedName(name), final_image)]
                           /\ results_data' =
                                 [results_data EXCEPT ![r] = Append(@, out)]
                           /\ total_specimens' =
                                 [total_specimens EXCEPT ![r] = @ + out.count]
    /\ UNCHANGED <<world, now, argModel, output_dir, predecessors>>

\* save_detection_summary(output_dir, results_data) after the loop: the text
\* summary, then the CSV; a failing write ends the run.
save_detection_summary(r) ==
    /\ pc[r] = "process"
    /\ idx[r] = Len(image_files[r])
    /\ LET txt == TextSummary(results_data[r])
           csv == CsvRows(results_data[r])
       IN  \E failing \in {"none", TxtFile, CsvFile} :
              CASE failing = "none" ->
                     /\ fs' = [fs EXCEPT ![output_dir[r]].summary =
                                  Put(Put(@, TxtFile, txt), CsvFile, csv)]
                     /\ pc' = [pc EXCEPT ![r] = "archive"]
                     /\ UNCHANGED <<response, printed, locals>>
                [] failing = TxtFile ->
                     /\ Exit1(r, "Processing failed: open detection_summary.txt")
                     /\ UNCHANGED fs
                [] failing = CsvFile ->
                     /\ fs' = [fs EXCEPT ![output_dir[r]].summary =
                                  Put(@, TxtFile, txt)]
                     /\ Exit1(r, "Processing failed: open detection_results.csv")
    /\ UNCHANGED <<world, now, argModel, output_dir, predecessors>>

\* The final summary printed by main: avg is << >> when the line is not
\* printed.
FinalSummary(rd, total) ==
    [images |-> Len(rd),
     total  |-> total,
     avg    |-> IF rd # << >> THEN <<FormatAvg(total, Len(rd))>> ELSE << >>]

\* CopiedOriginals with the last completed iteration left out.
CopiedOriginalsButLast(files, k) == {files[i] : i \in 1..(k - 1)}

\* The files the copy loop "for image_path in image_files: shutil.copy2"
\* has copied when it has completed k iterations.
CopiedOriginals(files, k) == {files[i] : i \in 1..k}

\* The rest of the try block of main after the reports: mkdir of
\* original_images, the copy loop, the final summary and exit status 0.  An
\* exception of copy2 (here at iteration k + 1) reaches the except clause,
\* which exits with 1; the files copied before it stay.
CopyOriginals(r) ==
    /\ pc[r] = "archive"
    /\ \E k \in 0..Len(image_files[r]) :
          /\ fs' = [fs EXCEPT ![output_dir[r]].dirs = @ \cup {"original_images"},
                              ![output_dir[r]].originals =
                                  @ \cup CopiedOriginals(image_files[r], k)]
          /\ IF k < Len(image_files[r])
             THEN Exit1(r, "Processing failed: copy2")
             ELSE /\ printed' = [printed EXCEPT ![r].summary =
                        <<FinalSummary(results_data[r], total_specimens[r])>>]
                  /\ pc' = [pc EXCEPT ![r] = "done"]
                  /\ response' = [response EXCEPT ![r] = "success"]
                  /\ UNCHANGED locals
    /\ UNCHANGED <<world, now, argModel, output_dir, predecessors>>

Next ==
    \/ \E r \in Runs : run_yolo(r)
    \/ \E r \in Runs : StartMain(r)
    \/ \E r \in Runs : LoadModel(r)
    \/ \E r \in Runs : Discover(r)
    \/ \E r \in Runs : ProcessImage(r)
    \/ \E r \in Runs : save_detection_summary(r)
    \/ \E r \in Runs : CopyOriginals(r)

Spec == Init /\ [][Next]_vars

\* Iterating over the matching extensions only yields the same discovered
\* sequences as iterating over all of image_extensions.
ExtOrdersSuffice ==
    (now = 0 /\ \A r \in Runs : pc[r] = "idle") =>
        {DiscoverFiles(l, o) : l \in Orders(inputDir), o \in ExtOrders}
      = {DiscoverFiles(l, o) : l \in Orders(inputDir),
                              o \in Orders(MatchingExtensions(inputDir))}

\* ------------------------------------------------------------------ claims
\* The bundle directory of a run that has created one.
BundleOf(r) == fs[output_dir[r]]

\* The names of the outcomes accumulated by a run.
OutcomeNames(r) == {results_data[r][i].filename : i \in DOMAIN results_data[r]}

\* C1: when a run has reached Done, detection_results.csv of its bundle has
\* as many data rows as annotated_images/ has files and as the run has
\* outcomes, and the annotated files are exactly 'counted_' + the outcome
\* file names.
C1_RowsFilesOutcomes ==
    \A r \in Runs :
        pc[r] = "done" =>
            /\ Len(BundleOf(r).summary[CsvFile]) = Len(results_data[r])
            /\ Cardinality(DOMAIN BundleOf(r).annotated) = Len(results_data[r])
            /\ DOMAIN BundleOf(r).annotated
                 = {CountedName(n) : n \in OutcomeNames(r)}

\* A run is Done with two outcomes, one of them without specimens.
C1_Witness ==
    \E r \in Runs :
        /\ pc[r] = "done"
        /\ Len(results_data[r]) = 2
        /\ \E i \in DOMAIN results_data[r] : results_data[r][i].count = 0

\* The file names of the rows of a CSV report and of the blocks of a text
\* report.
CsvNames(csv) == {csv[i][1] : i \in DOMAIN csv}
TxtNames(txt) == {txt.blocks[i].filename : i \in DOMAIN txt.blocks}

\* C2: when a run is Done, a discovered file that failed to load has no
\* annotated image, no CSV row, no text block and no copy under
\* original_images/ in the bundle of the run.
C2_UnreadableExcluded ==
    \A r \in Runs :
        pc[r] = "done" =>
            \A i \in DOMAIN image_files[r] :
                LET name == image_files[r][i]
                IN  ~imread(name).ok =>
                       /\ CountedName(name) \notin DOMAIN BundleOf(r).annotated
                       /\ name \notin CsvNames(BundleOf(r).summary[CsvFile])
                       /\ name \notin TxtNames(BundleOf(r).summary[TxtFile])
                       /\ name \notin BundleOf(r).originals

\* C3: a run that failed on a precondition (model missing, input directory
\* missing, no eligible image) has created no bundle directory.
C3_NoBundleOnPreconditionFailure ==
    \A r \in Runs :
        (/\ pc[r] = "failed"
         /\ printed[r].reason \in {"Model not found",
                                   "Test images directory not found",
                                   "No images found"})
            => output_dir[r] = NoDir

\* C4: the model a run has loaded is the model file at the path the session
\* layer started it with, and its counts are the detections of that model.
C4_LoadsSuppliedModel ==
    \A r \in Runs :
        /\ model[r] # NoModel => model[r] = argModel[r]
        /\ \A i \in DOMAIN results_data[r] :
              results_data[r][i].count
                 = Len(Detections(argModel[r], results_data[r][i].filename))

\* C5: archiving copies exactly the successfully processed originals, and a
\* failing copy does not make the run fail.
C5_ArchivingBestEffort ==
    \A r \in Runs :
        /\ pc[r] = "done" => BundleOf(r).originals = OutcomeNames(r)
        /\ pc[r] = "failed" => printed[r].reason # "Processing failed: copy2"

\* C6 as stated: a Done run without outcomes has the average line 0.0 in
\* its text summary.
C6_EmptyAverageIsZero ==
    \A r \in Runs :
        (pc[r] = "done" /\ results_data[r] = << >>)
            => BundleOf(r).summary[TxtFile].avg = <<0>>

\* C6 amended: for a Done run with n > 0 outcomes the text summary and the
\* final summary show total/n to one decimal (within half a tenth of the
\* exact quotient); with no outcome neither shows an average line, and both
\* show 0 images and 0 specimens.
C6_Average ==
    \A r \in Runs :
        pc[r] = "done" =>
            LET n     == Len(results_data[r])
                total == SumSeq([i \in DOMAIN results_data[r] |->
                                    results_data[r][i].count])
                txt   == BundleOf(r).summary[TxtFile]
                fin   == printed[r].summary[1]
            IN  IF n > 0
                THEN /\ Len(txt.avg) = 1
                     /\ 2 * (txt.avg[1] * n - 10 * total) <= n
                     /\ 2 * (10 * total - txt.avg[1] * n) <= n
                     /\ fin.avg = txt.avg
                ELSE /\ txt.avg = << >> /\ fin.avg = << >>
                     /\ txt.images = 0 /\ txt.total = 0
                     /\ fin.images = 0 /\ fin.total = 0

\* A run is Done although every discovered image failed to load.
C6_Witness ==
    \E r \in Runs :
        /\ pc[r] = "done"
        /\ results_data[r] = << >>
        /\ image_files[r] # << >>

\* C7: the Specimen_Count column of the CSV sums to the total of the text
\* summary, and for a Done run both equal the sum of the counts of its
\* outcomes and the total of its final summary.
C7_TotalsAgree ==
    \A r \in Runs :
        output_dir[r] # NoDir =>
            LET files == BundleOf(r).summary
            IN  /\ {TxtFile, CsvFile} \subseteq DOMAIN files =>
                      SumSeq([i \in DOMAIN files[CsvFile] |-> files[CsvFile][i][2]])
                         = files[TxtFile].total
                /\ pc[r] = "done" =>
                      /\ files[TxtFile].total
                           = SumSeq([i \in DOMAIN results_data[r] |->
                                        results_data[r][i].count])
                      /\ printed[r].summary[1].total = files[TxtFile].total

\* A run is Done with a positive total over two outcomes.
C7_Witness ==
    \E r \in Runs :
        /\ pc[r] = "done"
        /\ Len(results_data[r]) = 2
        /\ printed[r].summary[1].total > 0

\* str.lower() on one character and on a name, for stating extension
\* matching without regard to case.
LowerChar(c) ==
    CASE c = "J" -> "j" [] c = "P" -> "p" [] c = "G" -> "g" [] c = "E" -> "e"
      [] c = "N" -> "n" [] c = "B" -> "b" [] c = "M" -> "m" [] c = "T" -> "t"
      [] c = "I" -> "i" [] c = "F" -> "f" [] OTHER -> c

lower(s) == [i \in DOMAIN s |-> LowerChar(s[i])]

\* The entries the claim calls eligible: not hidden, extension in the
\* allow-list whatever its case.
Eligible(dir) ==
    {n \in dir : /\ ~startswith_dot(n)
                 /\ \E e \in image_extensions : EndsWith(lower(n), e)}

\* C8: the discovered images are exactly the eligible entries of the input
\* directory, each discovered once; a run ends with "No images found" only
\* when no entry is eligible.
C8_DiscoveryCaseInsensitive ==
    \A r \in Runs :
        /\ pc[r] \in {"process", "archive", "done"} =>
              /\ Range(image_files[r]) = Eligible(inputDir)
              /\ Len(image_files[r]) = Cardinality(Eligible(inputDir))
        /\ printed[r].reason = "No images found" => Eligible(inputDir) = {}

\* C9: two runs that have created their bundles have different bundle paths.
C9_BundlesDistinct ==
    \A r1, r2 \in Runs :
        (r1 # r2 /\ output_dir[r1] # NoDir /\ output_dir[r2] # NoDir)
            => output_dir[r1] # output_dir[r2]

\* C10: when a run started after another had ended and both are Done, their
\* reports show the same outcomes (file, count, confidence) in the same order.
C10_RerunSameReports ==
    \A r1, r2 \in Runs :
        (r1 \in predecessors[r2] /\ pc[r1] = "done" /\ pc[r2] = "done")
            => /\ results_data[r1] = results_data[r2]
               /\ output_dir[r1] # output_dir[r2] =>
                     BundleOf(r1).summary = BundleOf(r2).summary

\* C11: in the annotated image of every processed image the "Avg Confidence"
\* line is omitted when the image's count is 0 and drawn when the count is
\* greater than 0, for the banner height the annotator derives from the
\* image height.
C11_ConfidenceLineIffDetections ==
    \A b \in DOMAIN fs : \A f \in DOMAIN fs[b].annotated :
        LET final_image == fs[b].annotated[f]
        IN  /\ final_image.banner_height = BannerHeight(final_image.size[2])
            /\ (final_image.count_text = 0 => final_image.conf_text = << >>)
            /\ (final_image.count_text > 0 => final_image.conf_text # << >>)

\* The state of one run: its position, its answer, its output and the
\* variables of its process.
RunState(r) ==
    <<pc[r], response[r], printed[r], output_dir[r], model[r], image_files[r],
      idx[r], results_data[r], total_specimens[r]>>

\* Every directory and file of fs is still there in fs2.
NothingRemoved(fs1, fs2) ==
    \A b \in DOMAIN fs1 :
        /\ b \in DOMAIN fs2
        /\ fs1[b].dirs \subseteq fs2[b].dirs
        /\ DOMAIN fs1[b].annotated \subseteq DOMAIN fs2[b].annotated
        /\ DOMAIN fs1[b].summary \subseteq DOMAIN fs2[b].summary
        /\ fs1[b].originals \subseteq fs2[b].originals

\* fs2 is fs1 but for the text summary of bundle b.
SameButTxt(fs1, fs2, b) ==
    /\ NothingRemoved(fs1, fs2)
    /\ DOMAIN fs2 = DOMAIN fs1
    /\ \A c \in DOMAIN fs1 :
          /\ fs2[c].dirs = fs1[c].dirs
          /\ fs2[c].annotated = fs1[c].annotated
          /\ fs2[c].originals = fs1[c].originals
          /\ DOMAIN fs2[c].summary \subseteq DOMAIN fs1[c].summary \cup {TxtFile}
          /\ \A f \in DOMAIN fs1[c].summary :
                (c # b \/ f # TxtFile) => fs2[c].summary[f] = fs1[c].summary[f]

\* What C12 says of one step and one run.
C12_Step(r) ==
    \* a failure reported by the run ends it with a non-zero status
    /\ printed'[r].reason # printed[r].reason =>
          /\ pc'[r] = "failed"
          /\ response'[r] = "error"
    \* a failure of the model loading, of the processing of an image or of
    \* the text summary changes no file; a failure of the CSV comes after
    \* the text summary has been written, and changes nothing else
    /\ (pc[r] # "failed" /\ pc'[r] = "failed") =>
          IF printed'[r].reason = "Processing failed: open detection_results.csv"
          THEN SameButTxt(fs, fs', output_dir[r])
          ELSE printed'[r].reason # "Processing failed: copy2" => fs' = fs
    \* the failed run takes no later step
    /\ pc[r] = "failed" => RunState(r)' = RunState(r)

\* C12: a failure during model loading, image processing or report writing
\* moves the run to Failed with a non-zero exit status; the failed run
\* executes no later step (the files change only in steps of runs that have
\* not failed), and no file already written is removed or rolled back.
C12_FailureIsTerminal ==
    [][/\ \A r \in Runs : C12_Step(r)
       /\ NothingRemoved(fs, fs')
       /\ fs' # fs => \E q \in Runs :
              /\ pc[q] \in {"start", "process", "archive"}
              /\ RunState(q)' # RunState(q)]_vars

\* A run, the only one started, has failed while processing its second
\* image: the annotated first image is in its bundle, no report and no
\* original is.
C12_Witness ==
    \E r \in Runs :
        /\ \A q \in Runs \ {r} : pc[q] = "idle"
        /\ pc[r] = "failed"
        /\ response[r] = "error"
        /\ printed[r].reason = "Processing failed: predict"
        /\ DOMAIN BundleOf(r).annotated # {}
        /\ DOMAIN BundleOf(r).summary = {}
        /\ BundleOf(r).originals = {}

\* The outcomes main has accumulated when the loop has completed k
\* iterations over files: those of the images that loaded, in the order of
\* files.
OutcomesAfter(files, k, detector) ==
    LET loaded == SelectSeq(SubSeq(files, 1, k), LAMBDA n : imread(n).ok)
    IN  [i \in 1..Len(loaded) |->
            Outcome(loaded[i], imread(loaded[i]), Detections(detector, loaded[i]))]

\* The steps of one run from one phase to the next.
PhaseSteps ==
    {<<"idle", "start">>, <<"start", "load">>, <<"load", "discover">>,
     <<"discover", "process">>, <<"process", "archive">>, <<"archive", "done">>}
    \cup {<<p, "failed">> : p \in {"start", "load", "discover", "process",
                                   "archive"}}

\* What C13 says of the state of one run.
C13_State(r) ==
    /\ pc[r] \in {"idle", "start", "load", "discover"} =>
          idx[r] = 0 /\ results_data[r] = << >> /\ image_files[r] = << >>
    \* Processing: the first idx images, and no other, have been processed
    \* or skipped, in discovery order
    /\ pc[r] \in {"process", "archive", "done"} =>
          /\ image_files[r] # << >>
          /\ idx[r] \in 0..Len(image_files[r])
          /\ results_data[r] = OutcomesAfter(image_files[r], idx[r], model[r])
    \* the reports are there, and every image was processed or skipped,
    \* once the run is Archiving or Done
    /\ pc[r] \in {"archive", "done"} =>
          /\ idx[r] = Len(image_files[r])
          /\ {TxtFile, CsvFile} \subseteq DOMAIN BundleOf(r).summary
    \* Done: archiving has finished
    /\ pc[r] = "done" =>
          /\ "original_images" \in BundleOf(r).dirs
          /\ Range(image_files[r]) \subseteq BundleOf(r).originals
          /\ response[r] = "success"

\* What C13 says of one step and one run.
C13_Step(r) ==
    /\ pc'[r] # pc[r] => <<pc[r], pc'[r]>> \in PhaseSteps
    \* one image at a time, the next one of the discovery order
    /\ (pc[r] = "process" /\ pc'[r] = "process" /\ idx'[r] # idx[r]) =>
          /\ idx'[r] = idx[r] + 1
          /\ image_files'[r] = image_files[r]
    /\ pc'[r] # "process" => (idx'[r] = idx[r] \/ pc'[r] = "failed")
    \* Summarizing starts only when every image was processed or skipped
    /\ (pc[r] = "process" /\ pc'[r] = "archive") =>
          /\ idx[r] = Len(image_files[r])
          /\ UNCHANGED <<idx, results_data>>

\* C13: every run goes through Discovering, Processing, Summarizing,
\* Archiving and Done in this order: the images are processed one at a time
\* in discovery order; the two reports are written in one step per run,
\* taken when every discovered image has been processed or skipped; the
\* originals are copied only into a bundle that holds both reports; and a
\* run is Done only when its originals are archived.
C13_PhaseOrder ==
    /\ [](/\ \A r \in Runs : C13_State(r)
          /\ \A b \in DOMAIN fs :
                ("original_images" \in fs[b].dirs \/ fs[b].originals # {})
                    => {TxtFile, CsvFile} \subseteq DOMAIN fs[b].summary)
    /\ [][/\ \A r \in Runs : C13_Step(r)
          /\ \A b \in DOMAIN fs :
                /\ fs'[b].summary # fs[b].summary =>
                      \E q \in Runs :
                          /\ output_dir[q] = b
                          /\ pc[q] = "process" /\ idx[q] = Len(image_files[q])
                          /\ pc'[q] \in {"archive", "failed"}
                /\ fs'[b].originals # fs[b].originals =>
                      \E q \in Runs :
                          /\ output_dir[q] = b
                          /\ pc[q] = "archive"
                          /\ pc'[q] \in {"done", "failed"}]_vars

\* A run, the only one started, is Done after a discovery of two files, one
\* of which did not load: one outcome, both reports and both originals.
C13_Witness ==
    \E r \in Runs :
        /\ \A q \in Runs \ {r} : pc[q] = "idle"
        /\ pc[r] = "done"
        /\ Len(image_files[r]) = 2
        /\ idx[r] = 2
        /\ Len(results_data[r]) = 1
        /\ DOMAIN BundleOf(r).summary = {TxtFile, CsvFile}
        /\ BundleOf(r).originals = Range(image_files[r])


====
